---- MODULE Spec2Model ----
(***************************************************************************)
(* Three-tier Auth0 management-token cache of cruise_admin                 *)
(* (src/admin/token_cache.py): process memory -> SSM Parameter Store ->    *)
(* Auth0 token endpoint.                                                   *)
(*                                                                         *)
(* A call of get_auth0_mgmt_token is a sequence of steps of one thread;    *)
(* the steps are cut at every access to state that other calls share (the *)
(* two module globals, the parameter, the issuer, the wall clock).         *)
(* Times are whole seconds.  A token string is a number: the n-th token    *)
(* the issuer issued is n, the empty string is 0 and None is -1.           *)
(*                                                                         *)
(* Three further components have their own specifications over their own  *)
(* variables: the API authorizer (SpecAuth), the idle monitor (SpecIdle)   *)
(* and the invite operation (SpecInvite).                                  *)
(***************************************************************************)
EXTENDS Integers, Sequences, FiniteSets, TLC

\* ------------------------------------------------------------------------
\* Program constants
TOKEN_CACHE_SECONDS == 86400

TOKEN_EXPIRY_BUFFER == 300

\* ------------------------------------------------------------------------
\* Bounds of the model
MaxIssue == 2

MaxTicks == 2

\* ------------------------------------------------------------------------
\* Threads and the processes they run in: threads 1 and 2 share the globals
\* of process 1, thread 3 runs in process 2; all share the parameter store.
Threads == {1, 2, 3}

Procs == {1, 2}

procOf(t) == IF t = 3 THEN 2 ELSE 1

\* The callers when calls do not overlap: one thread of each process
SeqThreads == {1, 3}

\* Steps by which the wall clock advances between two program steps: one
\* second, one second less than the span during which the tiers serve a
\* token issued now, and the span after which its expiry is reached.
Deltas == {1, TOKEN_CACHE_SECONDS - 2 * TOKEN_EXPIRY_BUFFER - 1,
           TOKEN_CACHE_SECONDS - TOKEN_EXPIRY_BUFFER}

NoneTok == -1

EmptyTok == 0

\* Python truthiness of an Optional[str]
Truthy(tok) == tok > 0

RequiredEnv == <<"AUTH0_DOMAIN", "AUTH0_CLIENT_ID", "AUTH0_CLIENT_SECRET">>

RequiredNames == {RequiredEnv[i] : i \in 1..Len(RequiredEnv)}

\* Environments a process can be started with: complete, or without the
\* client secret.
EnvChoices == {RequiredNames, RequiredNames \ {"AUTH0_CLIENT_SECRET"}}

\* ------------------------------------------------------------------------
\* The parameter /cruise-admin/prod/auth0-mgmt-token
Absent == [kind |-> "absent", token |-> NoneTok, expiry |-> 0]

NotJson == [kind |-> "notjson", token |-> NoneTok, expiry |-> 0]

NonObject == [kind |-> "nonobject", token |-> NoneTok, expiry |-> 0]

\* Variant of line 34 that stores the expiry in minutes
json_dumps_minutes(token, expiry) == [kind |-> "object", token |-> token, expiry |-> expiry \div 60]

\* json.dumps({"token": token, "expiry": expiry})
json_dumps(token, expiry) == [kind |-> "object", token |-> token, expiry |-> expiry]

\* Values the parameter can hold before this component first writes it:
\* nothing, text that is not JSON, JSON that is not an object, an object
\* without a token field (and without expiry: the default 0.0 applies), an
\* object with an empty token.
InitStores == {Absent, NotJson, NonObject, json_dumps(NoneTok, 0),
               json_dumps(EmptyTok, TOKEN_CACHE_SECONDS)}

ClientErrors == {"ParameterNotFound", "AccessDeniedException"}

\* What client.get_parameter can do with the parameter in state blob
ReadOutcomes(blob) ==
    (IF blob.kind = "absent" THEN {"ParameterNotFound"} ELSE {"ok"})
        \cup {"AccessDeniedException", "EndpointConnectionError"}

\* What client.put_parameter can do
WriteOutcomes == {"ok", "AccessDeniedException", "EndpointConnectionError"}

\* What the POST to /oauth/token can do: a 2xx body with access_token, a
\* network failure, a non-2xx status, a 2xx body without access_token.
IssuerOutcomes == {"ok", "ConnectionError", "HTTPError", "KeyError"}

\* The classes an exception is an instance of, that is the except clauses
\* that catch it: raise_for_status and requests.post raise subclasses of
\* requests' RequestException, data["access_token"] raises KeyError,
\* get_env_or_raise raises RuntimeError, json.loads a ValueError, boto3 a
\* BotoCoreError.
ExceptionBases(err) ==
    CASE err = "ConnectionError" -> {"ConnectionError", "RequestException", "OSError", "Exception"}
      [] err = "HTTPError" -> {"HTTPError", "RequestException", "OSError", "Exception"}
      [] err = "KeyError" -> {"KeyError", "LookupError", "Exception"}
      [] err = "RuntimeError" -> {"RuntimeError", "Exception"}
      [] err = "JSONDecodeError" -> {"JSONDecodeError", "ValueError", "Exception"}
      [] err = "AttributeError" -> {"AttributeError", "Exception"}
      [] err = "EndpointConnectionError" -> {"EndpointConnectionError", "BotoCoreError", "Exception"}
      [] OTHER -> {"Exception"}

NoPair == [token |-> NoneTok, expiry |-> 0]

NoResult == [kind |-> "none", value |-> NoneTok, stage |-> "none", err |-> "none", checked |-> 0]

NoPre == [mem |-> NoPair, store |-> Absent, env |-> {}, last |-> NoneTok, now |-> 0]

VARIABLES
    clock,      \* time.time()
    ticks,      \* number of clock advances so far
    mem,        \* per process: _auth0_mgmt_token, _auth0_mgmt_token_expiry
    store,      \* the parameter in Parameter Store
    env,        \* per process: the required names set in os.environ
    issuedAt,   \* issuedAt[n]: time the response carrying token n arrived
    last,       \* per process: token returned by the latest call, if it succeeded
    pc,         \* per thread: position in get_auth0_mgmt_token
    now,        \* per thread: the latest time.time() of the call (lines 125, 63, 106)
    loc,        \* per thread: the locals token, expiry
    io,         \* per thread: external requests of the current call
    pre,        \* per thread: globals, parameter, environment when the call began
    result      \* per thread: outcome of the call

\* The API authorizer (src/infra/auth0_validator.py)
VARIABLES
    event,      \* the event handler was invoked with
    policy      \* what handler returned

\* The idle monitor (src/app/shutdown.py) and the requests of the server
VARIABLES
    wall,               \* datetime.now(timezone.utc), in minutes since the import
    last_request_time,  \* the module global of shutdown.py
    mpc,                \* position of the monitor thread
    mnow,               \* the monitor's local now (line 15)
    wake,               \* when the monitor's time.sleep(60) is over
    rpc,                \* per request: how far it has come through the middlewares
    stamp,              \* per request: the value of datetime.now() at line 23
    latest,             \* when the most recent request began, -1 if there was none
    chk                 \* latest, as it was when the monitor last executed line 15

\* The invite operation (src/lambdas/admin_api.py, src/app/main.py) and the
\* Auth0 tenant it talks to
VARIABLES
    directory,  \* emails of the users in the tenant
    mails,      \* per email: password-reset mails Auth0 has sent
    ipc,        \* per invite request: position in invite_user / invite_user_api
    ireq,       \* per invite request: entry point and body
    user,       \* per invite request: the local user after find_user
    calls,      \* per invite request: calls to Auth0 made so far
    resp,       \* per invite request: the response
    atStart,       \* per invite request: directory and mails when it began
    solo        \* per invite request: no other request has run since it began

cacheVars == <<clock, ticks, mem, store, env, issuedAt, last, pc, now, loc, io, pre, result>>

authVars == <<event, policy>>

idleVars == <<wall, last_request_time, mpc, mnow, wake, rpc, stamp, latest, chk>>

\* The variables of the components other than the token cache
inviteVars == <<directory, mails, ipc, ireq, user, calls, resp, atStart, solo>>

appVars == <<authVars, idleVars, inviteVars>>

vars == <<cacheVars, appVars>>

\* No invocation of handler
NoEvent == [kind |-> "none"]

NoPolicy == [principalId |-> <<>>, Effect |-> "none", Resource |-> <<>>]

\* The authorizer is not part of the run.
AuthOff ==
    /\ event = NoEvent
    /\ policy = NoPolicy

\* The requests the server has in progress at a time
Requests == {1, 2}

\* shutdown.py has just been imported (line 11); main.py line 69 has not run.
IdleOff ==
    /\ wall = 0
    /\ last_request_time = 0
    /\ mpc = "off"
    /\ mnow = 0
    /\ wake = 0
    /\ rpc = [r \in Requests |-> "none"]
    /\ stamp = [r \in Requests |-> 0]
    /\ latest = -1
    /\ chk = -1

\* Invite requests in progress at a time (Lambda runs them in separate
\* processes)
Invites == {1, 2}

Emails == {"ann@example.com", "bob@example.com"}

\* find_user returned None; also the value of user before find_user
None == [user_id |-> "", email |-> ""]

NoRequest == [via |-> "none", email |-> "", complete |-> FALSE]

NoResponse == [status |-> 0, message |-> "", user_id |-> ""]

\* Nobody has been invited and no invite request has come in.
InviteOff ==
    /\ directory = {}
    /\ mails = [e \in Emails |-> 0]
    /\ ipc = [r \in Invites |-> "idle"]
    /\ ireq = [r \in Invites |-> NoRequest]
    /\ user = [r \in Invites |-> None]
    /\ calls = [r \in Invites |-> <<>>]
    /\ resp = [r \in Invites |-> NoResponse]
    /\ atStart = [r \in Invites |-> [directory |-> {}, mails |-> [e \in Emails |-> 0]]]
    /\ solo = [r \in Invites |-> TRUE]

\* Only the token cache runs.
AppOff == AuthOff /\ IdleOff /\ InviteOff

\* ------------------------------------------------------------------------
\* Pure parts of the code

\* Variant of the test of line 129 with >= in place of >
MemoryHit_inclusive(tok, exp, t) == Truthy(tok) /\ exp >= t + TOKEN_EXPIRY_BUFFER

\* Variant of the test of line 129 that leaves the buffer out
MemoryHit_nobuffer(tok, exp, t) == Truthy(tok) /\ exp > t

\* line 129: _auth0_mgmt_token and _auth0_mgmt_token_expiry > now + TOKEN_EXPIRY_BUFFER
MemoryHit(tok, exp, t) == Truthy(tok) /\ exp > t + TOKEN_EXPIRY_BUFFER

\* Variant of the test of line 64 that does not look at the token
StoreHit_anytoken(tok, exp, t) == exp > t + TOKEN_EXPIRY_BUFFER

\* Variant of the test of line 64 with >= in place of >
StoreHit_inclusive(tok, exp, t) == Truthy(tok) /\ exp >= t + TOKEN_EXPIRY_BUFFER

\* Variant of line 64 that does not look at the expiry
StoreHit_noexpiry(tok, exp, t) == Truthy(tok)

\* line 64: token and expiry > now + TOKEN_EXPIRY_BUFFER
StoreHit(tok, exp, t) == Truthy(tok) /\ exp > t + TOKEN_EXPIRY_BUFFER

\* Variant of line 107 that leaves the buffer out
ComputeExpiry_nobuffer(t) == t + TOKEN_CACHE_SECONDS

\* line 107: expiry = now + TOKEN_CACHE_SECONDS - TOKEN_EXPIRY_BUFFER
ComputeExpiry(t) == t + TOKEN_CACHE_SECONDS - TOKEN_EXPIRY_BUFFER

\* _load_token_from_parameter_store, given what get_parameter did (out), the
\* parameter's value and the time read at line 63.
\* ret: "pair" (a tuple is returned), "none" (None is returned), or "raise".
_load_token_from_parameter_store(out, blob, t) ==
    IF out = "ok"
    THEN IF blob.kind = "notjson"
         THEN [ret |-> "raise", err |-> "JSONDecodeError", token |-> NoneTok, expiry |-> 0]
         ELSE IF blob.kind = "nonobject"
         THEN [ret |-> "raise", err |-> "AttributeError", token |-> NoneTok, expiry |-> 0]
         ELSE IF StoreHit(blob.token, blob.expiry, t)
         THEN [ret |-> "pair", err |-> "none", token |-> blob.token, expiry |-> blob.expiry]
         ELSE [ret |-> "none", err |-> "none", token |-> NoneTok, expiry |-> 0]
    ELSE IF out \in ClientErrors
    THEN [ret |-> "none", err |-> "none", token |-> NoneTok, expiry |-> 0]
    ELSE [ret |-> "raise", err |-> out, token |-> NoneTok, expiry |-> 0]

\* _save_token_to_parameter_store, given what put_parameter did (out).
\* ret: "none" (returns), or "raise"; blob: the parameter afterwards.
_save_token_to_parameter_store(out, token, expiry, blob) ==
    IF out = "ok"
    THEN [ret |-> "none", err |-> "none", blob |-> json_dumps(token, expiry)]
    ELSE IF out \in ClientErrors
    THEN [ret |-> "none", err |-> "none", blob |-> blob]
    ELSE [ret |-> "raise", err |-> out, blob |-> blob]

\* get_env_or_raise over the three required names, in the order of lines 86-88
get_env_or_raise(e) == \A i \in 1..Len(RequiredEnv) : RequiredEnv[i] \in e

\* ------------------------------------------------------------------------
\* State after the module is imported in every process (lines 10-11), the
\* parameter holding whatever was there before.
Init ==
    /\ clock = 0
    /\ ticks = 0
    /\ mem = [p \in Procs |-> NoPair]
    /\ store \in InitStores
    /\ env = [p \in Procs |-> RequiredNames]
    /\ issuedAt = <<>>
    /\ last = [p \in Procs |-> NoneTok]
    /\ pc = [t \in Threads |-> "idle"]
    /\ now = [t \in Threads |-> 0]
    /\ loc = [t \in Threads |-> NoPair]
    /\ io = [t \in Threads |-> <<>>]
    /\ pre = [t \in Threads |-> NoPre]
    /\ result = [t \in Threads |-> NoResult]
    /\ AppOff

\* The token cache is not part of the run: nothing is cached and nobody calls.
CacheOff ==
    /\ clock = 0
    /\ ticks = 0
    /\ mem = [p \in Procs |-> NoPair]
    /\ store = Absent
    /\ env = [p \in Procs |-> RequiredNames]
    /\ issuedAt = <<>>
    /\ last = [p \in Procs |-> NoneTok]
    /\ pc = [t \in Threads |-> "idle"]
    /\ now = [t \in Threads |-> 0]
    /\ loc = [t \in Threads |-> NoPair]
    /\ io = [t \in Threads |-> <<>>]
    /\ pre = [t \in Threads |-> NoPre]
    /\ result = [t \in Threads |-> NoResult]

\* The same, the parameter never written by anyone but this component.
InitOwn ==
    /\ Init
    /\ store = Absent

\* The call of thread t ends: it returns value, or raises err, at stage;
\* checked is the latest time the call read from the clock, the time against
\* which the expiry of a returned token was compared or computed.
Finish(t, kind, value, stage, err, checked) ==
    /\ pc' = [pc EXCEPT ![t] = "done"]
    /\ result' = [result EXCEPT ![t] = [kind |-> kind, value |-> value, stage |-> stage,
                                        err |-> err, checked |-> checked]]
    /\ last' = [last EXCEPT ![procOf(t)] = IF kind = "token" THEN value ELSE NoneTok]
    /\ now' = [now EXCEPT ![t] = 0]
    /\ loc' = [loc EXCEPT ![t] = NoPair]

\* The call of thread t makes an external request, which ends as out.
Request(t, op, out) == io' = [io EXCEPT ![t] = Append(@, [op |-> op, out |-> out])]

\* The wall clock advances.
Tick ==
    /\ ticks < MaxTicks
    /\ \E d \in Deltas : clock' = clock + d
    /\ ticks' = ticks + 1
    /\ UNCHANGED <<mem, store, env, issuedAt, last, pc, now, loc, io, pre, result>>
    /\ UNCHANGED appVars

\* Process p ends and a new one starts in environment e (Lambda cold start,
\* restart of the server): the module globals are initialised anew.
ColdStart(p, e) ==
    /\ \A t \in Threads : procOf(t) = p => pc[t] = "idle"
    /\ mem' = [mem EXCEPT ![p] = NoPair]
    /\ env' = [env EXCEPT ![p] = e]
    /\ last' = [last EXCEPT ![p] = NoneTok]
    /\ UNCHANGED <<clock, ticks, store, issuedAt, pc, now, loc, io, pre, result>>
    /\ UNCHANGED appVars

\* What a call of thread t finds when it begins
Snapshot(t) == [mem |-> mem[procOf(t)], store |-> store, env |-> env[procOf(t)],
                last |-> last[procOf(t)], now |-> clock]

\* lines 125-126: the call begins and reads the clock; atStart is kept for
\* comparing the state after the call with the state before it.
BeginCall(t, snap) ==
    /\ pc[t] = "idle"
    /\ now' = [now EXCEPT ![t] = clock]
    /\ pre' = [pre EXCEPT ![t] = snap]
    /\ pc' = [pc EXCEPT ![t] = "tier1_token"]
    /\ UNCHANGED <<clock, ticks, mem, store, env, issuedAt, last, loc, io, result>>
    /\ UNCHANGED appVars

\* A call begins when no other call is in progress.
Begin(t) ==
    /\ \A u \in Threads : pc[u] = "idle"
    /\ BeginCall(t, Snapshot(t))

\* A call begins while other calls of its process may be in progress; calls
\* of different processes do not overlap.
BeginConc(t) ==
    /\ \A u \in Threads : procOf(u) # procOf(t) => pc[u] = "idle"
    /\ BeginCall(t, NoPre)

\* line 129, left operand: the global token is read.
Tier1Token(t) ==
    /\ pc[t] = "tier1_token"
    /\ pc' = [pc EXCEPT ![t] = IF Truthy(mem[procOf(t)].token) THEN "tier1_expiry" ELSE "load"]
    /\ UNCHANGED <<clock, ticks, mem, store, env, issuedAt, last, now, loc, io, pre, result>>
    /\ UNCHANGED appVars

\* line 129, right operand: the global expiry is read and compared.
Tier1Expiry(t) ==
    /\ pc[t] = "tier1_expiry"
    /\ pc' = [pc EXCEPT ![t] = IF MemoryHit(mem[procOf(t)].token, mem[procOf(t)].expiry, now[t])
                               THEN "tier1_return" ELSE "load"]
    /\ UNCHANGED <<clock, ticks, mem, store, env, issuedAt, last, now, loc, io, pre, result>>
    /\ UNCHANGED appVars

\* line 132: the global token is read again and returned.
Tier1Return(t) ==
    /\ pc[t] = "tier1_return"
    /\ Finish(t, "token", mem[procOf(t)].token, "memory", "none", now[t])
    /\ UNCHANGED <<clock, ticks, mem, store, env, issuedAt, io, pre>>
    /\ UNCHANGED appVars

\* Variant of line 137 that reads again after a ClientError
Load_retry(t) ==
    /\ pc[t] = "load"
    /\ \E out \in ReadOutcomes(store) :
        LET r == _load_token_from_parameter_store(out, store, clock) IN
        /\ Request(t, "read", out)
        /\ IF r.ret = "raise"
           THEN Finish(t, "error", NoneTok, "durable", r.err, now[t])
           ELSE /\ pc' = [pc EXCEPT ![t] = IF r.ret = "pair" THEN "adopt_token"
                                           ELSE IF out \in ClientErrors THEN "load"
                                           ELSE "fetch"]
                /\ loc' = [loc EXCEPT ![t] = [token |-> r.token, expiry |-> r.expiry]]
                /\ now' = [now EXCEPT ![t] = IF out = "ok" THEN clock ELSE @]
                /\ UNCHANGED <<result, last>>
    /\ UNCHANGED <<clock, ticks, mem, store, env, issuedAt, pre>>
    /\ UNCHANGED appVars

\* line 137: _load_token_from_parameter_store, and the test of line 138.
Load(t) ==
    /\ pc[t] = "load"
    /\ \E out \in ReadOutcomes(store) :
        LET r == _load_token_from_parameter_store(out, store, clock) IN
        /\ Request(t, "read", out)
        /\ IF r.ret = "raise"
           THEN Finish(t, "error", NoneTok, "durable", r.err, now[t])
           ELSE /\ pc' = [pc EXCEPT ![t] = IF r.ret = "pair" THEN "adopt_token" ELSE "fetch"]
                /\ loc' = [loc EXCEPT ![t] = [token |-> r.token, expiry |-> r.expiry]]
                /\ now' = [now EXCEPT ![t] = IF out = "ok" THEN clock ELSE @]
                /\ UNCHANGED <<result, last>>
    /\ UNCHANGED <<clock, ticks, mem, store, env, issuedAt, pre>>
    /\ UNCHANGED appVars

\* Variant of line 141 that assigns a local instead of the global
AdoptToken_local(t) ==
    /\ pc[t] = "adopt_token"
    /\ pc' = [pc EXCEPT ![t] = "adopt_expiry"]
    /\ UNCHANGED <<clock, ticks, mem, store, env, issuedAt, last, now, loc, io, pre, result>>
    /\ UNCHANGED appVars

\* line 141: _auth0_mgmt_token = token
AdoptToken(t) ==
    /\ pc[t] = "adopt_token"
    /\ mem' = [mem EXCEPT ![procOf(t)].token = loc[t].token]
    /\ pc' = [pc EXCEPT ![t] = "adopt_expiry"]
    /\ UNCHANGED <<clock, ticks, store, env, issuedAt, last, now, loc, io, pre, result>>
    /\ UNCHANGED appVars

\* Variant of line 142 that computes a new expiry instead of keeping the stored one
AdoptExpiry_recompute(t) ==
    /\ pc[t] = "adopt_expiry"
    /\ mem' = [mem EXCEPT ![procOf(t)].expiry = ComputeExpiry(clock)]
    /\ Finish(t, "token", loc[t].token, "durable", "none", now[t])
    /\ UNCHANGED <<clock, ticks, store, env, issuedAt, io, pre>>
    /\ UNCHANGED appVars

\* lines 142-143: _auth0_mgmt_token_expiry = expiry; return token
AdoptExpiry(t) ==
    /\ pc[t] = "adopt_expiry"
    /\ mem' = [mem EXCEPT ![procOf(t)].expiry = loc[t].expiry]
    /\ Finish(t, "token", loc[t].token, "durable", "none", now[t])
    /\ UNCHANGED <<clock, ticks, store, env, issuedAt, io, pre>>
    /\ UNCHANGED appVars

\* Variant of line 146 that empties the memory tier when the issuer fails
Fetch_clearing(t) ==
    /\ pc[t] = "fetch"
    /\ IF ~get_env_or_raise(env[procOf(t)])
       THEN /\ Finish(t, "error", NoneTok, "issuer", "RuntimeError", now[t])
            /\ UNCHANGED <<issuedAt, io>>
       ELSE \E out \in IssuerOutcomes :
            /\ out = "ok" => Len(issuedAt) < MaxIssue
            /\ Request(t, "issue", out)
            /\ IF out = "ok"
               THEN /\ issuedAt' = Append(issuedAt, clock)
                    /\ loc' = [loc EXCEPT ![t] = [token |-> Len(issuedAt) + 1,
                                                  expiry |-> ComputeExpiry(clock)]]
                    /\ now' = [now EXCEPT ![t] = clock]
                    /\ pc' = [pc EXCEPT ![t] = "set_token"]
                    /\ UNCHANGED <<result, last>>
               ELSE /\ Finish(t, "error", NoneTok, "issuer", out, now[t])
                    /\ UNCHANGED issuedAt
    /\ mem' = [mem EXCEPT ![procOf(t)] = IF Len(io'[t]) > Len(io[t]) /\ pc'[t] = "done"
                                          THEN NoPair ELSE @]
    /\ UNCHANGED <<clock, ticks, store, env, pre>>
    /\ UNCHANGED appVars

\* line 146: _fetch_new_token_from_auth0.  The issuer answers "ok" with a
\* token it never issued before.
Fetch(t) ==
    /\ pc[t] = "fetch"
    /\ IF ~get_env_or_raise(env[procOf(t)])
       THEN /\ Finish(t, "error", NoneTok, "issuer", "RuntimeError", now[t])
            /\ UNCHANGED <<issuedAt, io>>
       ELSE \E out \in IssuerOutcomes :
            /\ out = "ok" => Len(issuedAt) < MaxIssue
            /\ Request(t, "issue", out)
            /\ IF out = "ok"
               THEN /\ issuedAt' = Append(issuedAt, clock)
                    /\ loc' = [loc EXCEPT ![t] = [token |-> Len(issuedAt) + 1,
                                                  expiry |-> ComputeExpiry(clock)]]
                    /\ now' = [now EXCEPT ![t] = clock]
                    /\ pc' = [pc EXCEPT ![t] = "set_token"]
                    /\ UNCHANGED <<result, last>>
               ELSE /\ Finish(t, "error", NoneTok, "issuer", out, now[t])
                    /\ UNCHANGED issuedAt
    /\ UNCHANGED <<clock, ticks, mem, store, env, pre>>
    /\ UNCHANGED appVars

\* line 149: _auth0_mgmt_token = token
SetToken(t) ==
    /\ pc[t] = "set_token"
    /\ mem' = [mem EXCEPT ![procOf(t)].token = loc[t].token]
    /\ pc' = [pc EXCEPT ![t] = "set_expiry"]
    /\ UNCHANGED <<clock, ticks, store, env, issuedAt, last, now, loc, io, pre, result>>
    /\ UNCHANGED appVars

\* line 150: _auth0_mgmt_token_expiry = expiry
SetExpiry(t) ==
    /\ pc[t] = "set_expiry"
    /\ mem' = [mem EXCEPT ![procOf(t)].expiry = loc[t].expiry]
    /\ pc' = [pc EXCEPT ![t] = "save"]
    /\ UNCHANGED <<clock, ticks, store, env, issuedAt, last, now, loc, io, pre, result>>
    /\ UNCHANGED appVars

\* Variant of line 151 that persists the globals instead of the locals
Save_globals(t) ==
    /\ pc[t] = "save"
    /\ \E out \in WriteOutcomes :
        LET r == _save_token_to_parameter_store(out, mem[procOf(t)].token,
                                                mem[procOf(t)].expiry, store) IN
        /\ Request(t, "write", out)
        /\ store' = r.blob
        /\ IF r.ret = "raise"
           THEN Finish(t, "error", NoneTok, "save", r.err, now[t])
           ELSE Finish(t, "token", loc[t].token, "issuer", "none", now[t])
    /\ UNCHANGED <<clock, ticks, mem, env, issuedAt, pre>>
    /\ UNCHANGED appVars

\* lines 151-153: _save_token_to_parameter_store(token, expiry); return token
Save(t) ==
    /\ pc[t] = "save"
    /\ \E out \in WriteOutcomes :
        LET r == _save_token_to_parameter_store(out, loc[t].token, loc[t].expiry, store) IN
        /\ Request(t, "write", out)
        /\ store' = r.blob
        /\ IF r.ret = "raise"
           THEN Finish(t, "error", NoneTok, "save", r.err, now[t])
           ELSE Finish(t, "token", loc[t].token, "issuer", "none", now[t])
    /\ UNCHANGED <<clock, ticks, mem, env, issuedAt, pre>>
    /\ UNCHANGED appVars

\* The caller has taken the outcome; the thread is free for the next call.
Ack(t) ==
    /\ pc[t] = "done"
    /\ pc' = [pc EXCEPT ![t] = "idle"]
    /\ io' = [io EXCEPT ![t] = <<>>]
    /\ pre' = [pre EXCEPT ![t] = NoPre]
    /\ result' = [result EXCEPT ![t] = NoResult]
    /\ UNCHANGED <<clock, ticks, mem, store, env, issuedAt, last, now, loc>>
    /\ UNCHANGED appVars

\* One step of the call of thread t after its beginning
Step(t) ==
    \/ Tier1Token(t)
    \/ Tier1Expiry(t)
    \/ Tier1Return(t)
    \/ Load(t)
    \/ AdoptToken(t)
    \/ AdoptExpiry(t)
    \/ Fetch(t)
    \/ SetToken(t)
    \/ SetExpiry(t)
    \/ Save(t)
    \/ Ack(t)

\* Calls do not overlap; each process has one caller; processes restart.
Next ==
    \/ Tick
    \/ \E p \in Procs, e \in EnvChoices : ColdStart(p, e)
    \/ \E t \in SeqThreads : Begin(t)
    \/ \E t \in Threads : Step(t)

Spec == Init /\ [][Next]_vars

\* A step of the call of thread t that waits for nobody
LocalStep(t) ==
    \/ Tier1Token(t)
    \/ Tier1Expiry(t)
    \/ Tier1Return(t)
    \/ AdoptToken(t)
    \/ AdoptExpiry(t)
    \/ SetToken(t)
    \/ SetExpiry(t)

\* What the threads and the clients guarantee: a running call is not stopped
\* for ever; the boto3 client of lines 33 and 56 is created without a Config,
\* so its default connect and read timeouts end every get_parameter and
\* put_parameter; the check of the settings (lines 86-88) waits for nobody.
\* requests.post at line 101 is given no timeout: nothing but the issuer's
\* answer ends it, and nothing is guaranteed about it.
Fairness ==
    \A t \in Threads :
        /\ WF_vars(LocalStep(t))
        /\ WF_vars(Load(t))
        /\ WF_vars(Save(t))
        /\ WF_vars(Fetch(t) /\ ~get_env_or_raise(env[procOf(t)]))

\* Non-overlapping calls, with what the threads and the clients guarantee
SpecLive == Init /\ [][Next]_vars /\ Fairness

\* The calls of the threads of a process interleave in any way.
NextConc ==
    \/ Tick
    \/ \E t \in Threads : BeginConc(t)
    \/ \E t \in Threads : Step(t)

SpecConc == InitOwn /\ [][NextConc]_vars

\* ------------------------------------------------------------------------
\* Properties

TypeOK ==
    /\ clock \in Nat
    /\ ticks \in 0..MaxTicks
    /\ Len(issuedAt) <= MaxIssue
    /\ \A t \in Threads : Len(io[t]) <= 3
    /\ \A t \in Threads : pc[t] = "idle" => io[t] = <<>> /\ result[t] = NoResult

\* The call of thread t has ended and its outcome is still on display.
Done(t) == pc[t] = "done"

\* The kinds of external request the call of thread t made, in order
Ops(t) == [i \in 1..Len(io[t]) |-> io[t][i].op]

\* The call of thread t made a request of kind op that ended as out.
Made(t, op, out) == \E i \in 1..Len(io[t]) : io[t][i].op = op /\ io[t][i].out = out

\* When the call of thread t began, a token was held and now + buffer < expires_at.
HeldUsable(t) ==
    /\ pre[t].mem.token > 0
    /\ pre[t].now + TOKEN_EXPIRY_BUFFER < pre[t].mem.expiry

\* When the call of thread t began, the parameter held no token that the
\* durable tier would serve, and nothing that is not a JSON object.
StoreMissed(t) ==
    \/ pre[t].store.kind = "absent"
    \/ /\ pre[t].store.kind = "object"
       /\ ~(pre[t].store.token > 0 /\ pre[t].store.expiry > pre[t].now + TOKEN_EXPIRY_BUFFER)

\* C1: a call returns from the memory tier, the held token and without any
\* external request, exactly when a token is held and now + buffer <
\* expires_at; every other call does not return from the memory tier and
\* its first request is a read of the durable store.
C1_MemoryTierExactly ==
    \A t \in Threads : Done(t) =>
        /\ HeldUsable(t) =>
            /\ result[t].kind = "token"
            /\ result[t].stage = "memory"
            /\ result[t].value = pre[t].mem.token
            /\ io[t] = <<>>
        /\ ~HeldUsable(t) =>
            /\ result[t].stage # "memory"
            /\ Len(io[t]) >= 1
            /\ io[t][1].op = "read"

\* A call found a token whose expires_at equalled now + buffer and went to
\* the durable store.
C1_Witness ==
    \E t \in Threads :
        /\ Done(t)
        /\ pre[t].mem.token > 0
        /\ pre[t].mem.expiry = pre[t].now + TOKEN_EXPIRY_BUFFER
        /\ result[t].stage # "memory"
        /\ io[t][1].op = "read"

\* C2: a call that follows a successful call of its process, the token of
\* which has not expired (now + buffer < expires_at), returns the same token,
\* makes no external request and leaves the memory tier and the durable
\* store as they were.
C2_IdempotentHit ==
    \A t \in Threads :
        (/\ Done(t)
         /\ pre[t].last > 0
         /\ pre[t].now + TOKEN_EXPIRY_BUFFER < pre[t].mem.expiry)
        => /\ result[t].kind = "token"
           /\ result[t].value = pre[t].last
           /\ io[t] = <<>>
           /\ mem[procOf(t)] = pre[t].mem
           /\ store = pre[t].store

\* A second call in succession returned the token of the first from memory,
\* at a later time than that token was issued.
C2_Witness ==
    \E t \in Threads :
        /\ Done(t)
        /\ pre[t].last > 0
        /\ result[t].kind = "token"
        /\ result[t].stage = "memory"
        /\ result[t].value = pre[t].last
        /\ pre[t].now > issuedAt[pre[t].last]

\* C3: after a memory miss, when the durable store is read and holds
\* {token, expiry} with expiry > now + buffer, the call returns the stored
\* token, makes no issuance request and no write, and afterwards the memory
\* tier holds exactly the stored pair.
C3_DurableFallback ==
    \A t \in Threads :
        (/\ Done(t)
         /\ ~HeldUsable(t)
         /\ Len(io[t]) >= 1
         /\ io[t][1].out = "ok"
         /\ pre[t].store.kind = "object"
         /\ pre[t].store.token > 0
         /\ pre[t].store.expiry > result[t].checked + TOKEN_EXPIRY_BUFFER)
        => /\ result[t].kind = "token"
           /\ result[t].stage = "durable"
           /\ result[t].value = pre[t].store.token
           /\ Ops(t) = <<"read">>
           /\ mem[procOf(t)] = [token |-> pre[t].store.token, expiry |-> pre[t].store.expiry]
           /\ store = pre[t].store

\* A call with an empty memory tier returned the stored token, later than
\* that token was issued.
C3_Witness ==
    \E t \in Threads :
        /\ Done(t)
        /\ pre[t].mem = NoPair
        /\ result[t].stage = "durable"
        /\ result[t].kind = "token"
        /\ result[t].checked > issuedAt[result[t].value]
        /\ mem[procOf(t)].expiry = pre[t].store.expiry

\* C4: a call that misses the memory tier and the durable store, in a
\* process with all settings, all of whose requests are answered without
\* fault, makes the requests read, issue, write, once each, returns the
\* token just issued, and afterwards the memory tier and the durable store
\* hold that token with the expiry issue time + lifetime - buffer.
C4_IssuanceOnFullMiss ==
    \A t \in Threads :
        (/\ Done(t)
         /\ ~HeldUsable(t)
         /\ StoreMissed(t)
         /\ RequiredNames \subseteq pre[t].env
         /\ \A i \in 1..Len(io[t]) : io[t][i].out \in {"ok", "ParameterNotFound"})
        => /\ Ops(t) = <<"read", "issue", "write">>
           /\ result[t].kind = "token"
           /\ result[t].stage = "issuer"
           /\ result[t].value = Len(issuedAt)
           /\ issuedAt[result[t].value] = result[t].checked
           /\ mem[procOf(t)] = [token |-> result[t].value,
                                expiry |-> result[t].checked + TOKEN_CACHE_SECONDS - TOKEN_EXPIRY_BUFFER]
           /\ store = json_dumps(result[t].value,
                                 result[t].checked + TOKEN_CACHE_SECONDS - TOKEN_EXPIRY_BUFFER)

\* A call found both tiers empty and left both holding the token it returned.
C4_Witness ==
    \E t \in Threads :
        /\ Done(t)
        /\ pre[t].mem = NoPair
        /\ pre[t].store = Absent
        /\ result[t].kind = "token"
        /\ Ops(t) = <<"read", "issue", "write">>
        /\ store.kind = "object"
        /\ store.token = result[t].value
        /\ mem[procOf(t)].token = result[t].value

\* C5, as the specification states it: a token held in the memory tier,
\* issued at t0, is returned from the cache iff now < expires_at
\* = t0 + lifetime - buffer.
C5_UsableIffBeforeExpiry ==
    \A t \in Threads :
        (Done(t) /\ pre[t].mem.token > 0)
        => /\ pre[t].mem.expiry = issuedAt[pre[t].mem.token] + TOKEN_CACHE_SECONDS - TOKEN_EXPIRY_BUFFER
           /\ result[t].stage = "memory" <=> pre[t].now < pre[t].mem.expiry

\* C5, amended: a token held in the memory tier, issued at t0, has
\* expires_at = t0 + lifetime - buffer and is returned from the cache iff
\* now + buffer < expires_at, that is iff now < t0 + lifetime - 2 * buffer;
\* any other call goes on to the durable store.
C5_UsableIffBufferBeforeExpiry ==
    \A t \in Threads :
        (Done(t) /\ pre[t].mem.token > 0)
        => /\ pre[t].mem.expiry = issuedAt[pre[t].mem.token] + TOKEN_CACHE_SECONDS - TOKEN_EXPIRY_BUFFER
           /\ result[t].stage = "memory"
                <=> pre[t].now < issuedAt[pre[t].mem.token] + TOKEN_CACHE_SECONDS - 2 * TOKEN_EXPIRY_BUFFER
           /\ result[t].stage # "memory" => Len(io[t]) >= 1

\* A call made less than buffer seconds before expires_at of the held token,
\* and before expires_at, did not return from the memory tier.
C5_Witness ==
    \E t \in Threads :
        /\ Done(t)
        /\ pre[t].mem.token > 0
        /\ pre[t].now < pre[t].mem.expiry
        /\ pre[t].now >= pre[t].mem.expiry - TOKEN_EXPIRY_BUFFER
        /\ result[t].stage # "memory"
        /\ Len(io[t]) >= 1

\* C6: every token a call returns was issued by the issuer, at a time t0
\* with now < t0 + lifetime - buffer, now being the time against which the
\* call checked or computed the expiry.
C6_NeverNearlyExpired ==
    \A t \in Threads :
        result[t].kind = "token"
        => /\ result[t].value \in 1..Len(issuedAt)
           /\ result[t].checked
                < issuedAt[result[t].value] + TOKEN_CACHE_SECONDS - TOKEN_EXPIRY_BUFFER

\* C7: a call whose read of the durable store fails with an error other
\* than "not found" does not fail in the durable tier; it goes on to the
\* issuance tier, and if the issuance succeeds it returns the token just
\* issued and the memory tier holds it.
C7_ReadErrorFallsThrough ==
    \A t \in Threads :
        (/\ Done(t)
         /\ Len(io[t]) >= 1
         /\ io[t][1].op = "read"
         /\ io[t][1].out \notin {"ok", "ParameterNotFound"})
        => /\ result[t].stage # "durable"
           /\ Made(t, "issue", "ok")
                => /\ result[t].kind = "token"
                   /\ result[t].value = Len(issuedAt)
                   /\ mem[procOf(t)].token = result[t].value

\* C8: a call whose write to the durable store fails still returns the
\* token just issued; the memory tier holds that token and its expiry, the
\* durable store what it held before.
C8_WriteErrorTolerated ==
    \A t \in Threads :
        (/\ Done(t)
         /\ \E i \in 1..Len(io[t]) : io[t][i].op = "write" /\ io[t][i].out # "ok")
        => /\ result[t].kind = "token"
           /\ result[t].value = Len(issuedAt)
           /\ mem[procOf(t)] = [token |-> result[t].value,
                                expiry |-> issuedAt[result[t].value]
                                           + TOKEN_CACHE_SECONDS - TOKEN_EXPIRY_BUFFER]
           /\ store = pre[t].store

\* C9: a call raises only from the issuance tier; no read or write of the
\* durable store, whatever it meets, ends the call with an error.
C9_FailsOnlyThroughIssuance ==
    \A t \in Threads :
        (Done(t) /\ result[t].kind = "error") => result[t].stage = "issuer"

\* C10: a call in a process where a required setting is absent fails with
\* the configuration error and has made no external request, whatever the
\* tiers hold.
C10_ConfigErrorBeforeAnyTier ==
    \A t \in Threads :
        (Done(t) /\ ~(RequiredNames \subseteq pre[t].env))
        => /\ result[t].kind = "error"
           /\ result[t].err = "RuntimeError"
           /\ io[t] = <<>>

\* C11: every failure of the issuance tier reaches the caller as an error
\* of one kind, a class that covers every way the issuance can fail and
\* does not cover the error raised for a missing setting.
C11_OneCredentialUnavailableKind ==
    \A t \in Threads :
        (/\ Done(t)
         /\ result[t].kind = "error"
         /\ \E i \in 1..Len(io[t]) : io[t][i].op = "issue" /\ io[t][i].out # "ok")
        => \E K \in ExceptionBases(result[t].err) :
            /\ \A o \in IssuerOutcomes \ {"ok"} : K \in ExceptionBases(o)
            /\ K \notin ExceptionBases("RuntimeError")

\* C12: every call that begins eventually ends, by returning or raising.
C12_EveryCallCompletes ==
    \A t \in Threads : (pc[t] = "tier1_token") ~> (pc[t] = "done")

\* C13: a call that starts with an empty memory tier, reads from the durable
\* store a pair that an earlier call issued and wrote, and finds its expiry
\* > now + buffer, returns that token from the store without any issuance
\* request, and the memory tier's expiry becomes the stored expiry, which is
\* the one computed when the token was issued.
C13_DurableRoundTrip ==
    \A t \in Threads :
        (/\ Done(t)
         /\ ~Truthy(pre[t].mem.token)
         /\ pre[t].store.kind = "object"
         /\ pre[t].store.token \in 1..Len(issuedAt)
         /\ Len(io[t]) >= 1
         /\ io[t][1].out = "ok"
         /\ pre[t].store.expiry > result[t].checked + TOKEN_EXPIRY_BUFFER)
        => /\ result[t].kind = "token"
           /\ result[t].stage = "durable"
           /\ result[t].value = pre[t].store.token
           /\ \A i \in 1..Len(io[t]) : io[t][i].op # "issue"
           /\ mem[procOf(t)].expiry = pre[t].store.expiry
           /\ mem[procOf(t)].expiry
                = issuedAt[result[t].value] + TOKEN_CACHE_SECONDS - TOKEN_EXPIRY_BUFFER

\* A process that had returned no token yet got from the store the token
\* another call had issued and written, with the expiry of its issuance.
C13_Witness ==
    \E t \in Threads :
        /\ Done(t)
        /\ pre[t].mem = NoPair
        /\ pre[t].last = NoneTok
        /\ result[t].kind = "token"
        /\ result[t].stage = "durable"
        /\ store.kind = "object"
        /\ store.token \in 1..Len(issuedAt)
        /\ result[t].value = store.token
        /\ mem[procOf(t)].expiry = issuedAt[store.token] + TOKEN_CACHE_SECONDS - TOKEN_EXPIRY_BUFFER

C15_PairFromOneFetch ==
    \A p \in Procs :
        (\A t \in Threads : procOf(t) = p => pc[t] \notin {"adopt_expiry", "set_expiry"})
        => \/ mem[p] = NoPair
           \/ /\ mem[p].token \in 1..Len(issuedAt)
              /\ mem[p].expiry
                    = issuedAt[mem[p].token] + TOKEN_CACHE_SECONDS - TOKEN_EXPIRY_BUFFER

\* C16: between non-overlapping calls, a token held in the memory tier of a
\* process or in the durable store has expires_at = t_issue + lifetime -
\* buffer, t_issue being the time its issuance response was received; this
\* includes a token the memory tier adopted from the store at a later time.
C16_ExpiryFromIssueTime ==
    (\A t \in Threads : pc[t] \in {"idle", "done"})
    => /\ \A p \in Procs :
            mem[p].token > 0
            => mem[p].expiry = issuedAt[mem[p].token] + TOKEN_CACHE_SECONDS - TOKEN_EXPIRY_BUFFER
       /\ (store.kind = "object" /\ store.token > 0)
            => store.expiry = issuedAt[store.token] + TOKEN_CACHE_SECONDS - TOKEN_EXPIRY_BUFFER

\* A process adopted from the store, later than it was issued, a token that
\* another process had issued; memory and store hold it with the same expiry.
C16_Witness ==
    \E t \in Threads :
        /\ Done(t)
        /\ result[t].kind = "token"
        /\ result[t].stage = "durable"
        /\ result[t].checked > issuedAt[result[t].value]
        /\ mem[procOf(t)].token = result[t].value
        /\ store = json_dumps(mem[procOf(t)].token, mem[procOf(t)].expiry)
        /\ \E q \in Procs : q # procOf(t) /\ mem[q] = mem[procOf(t)]

\* C17: the external requests of one call are, at every moment, a prefix of
\* read, issue, write, each made at most once: the issuance request follows
\* a read that came back without a token to adopt, the write follows an
\* issuance that succeeded, and a call that adopted makes no further request.
C17_RequestsArePrefix ==
    \A t \in Threads :
        /\ \E n \in 0..3 : Ops(t) = SubSeq(<<"read", "issue", "write">>, 1, n)
        /\ Len(io[t]) >= 2
            => /\ io[t][1].out \in {"ok"} \cup ClientErrors
               /\ pc[t] \notin {"adopt_token", "adopt_expiry"}
               /\ result[t].stage # "durable"
        /\ Len(io[t]) = 3 => io[t][2].out = "ok"
        /\ pc[t] \in {"adopt_token", "adopt_expiry"} => Ops(t) = <<"read">>

\* A call whose read and whose write both failed with a ClientError made
\* each request once and returned the issued token.
C17_Witness ==
    \E t \in Threads :
        /\ Done(t)
        /\ Len(io[t]) = 3
        /\ io[t][1].out = "AccessDeniedException"
        /\ io[t][2].out = "ok"
        /\ io[t][3].out = "AccessDeniedException"
        /\ result[t].kind = "token"

\* C18: a call that misses the memory tier and whose read finds the
\* parameter absent, or without a token, or with an empty token, or with
\* expiry <= now + buffer (equality included), does not adopt: it does not
\* return from the durable tier, it goes on to issuance, and the memory tier
\* afterwards holds either what it held before or the pair just issued.
C18_NoAdoptionOnStoreMiss ==
    \A t \in Threads :
        (/\ Done(t)
         /\ ~HeldUsable(t)
         /\ Len(io[t]) >= 1
         /\ io[t][1].out \in {"ok", "ParameterNotFound"}
         /\ \/ pre[t].store.kind = "absent"
            \/ /\ pre[t].store.kind = "object"
               /\ \/ pre[t].store.token <= 0
                  \/ pre[t].store.expiry <= pre[t].now + TOKEN_EXPIRY_BUFFER)
        => /\ result[t].stage \in {"issuer", "save"}
           /\ result[t].kind = "token" => result[t].value # pre[t].store.token
           /\ get_env_or_raise(pre[t].env) => (Len(io[t]) >= 2 /\ io[t][2].op = "issue")
           /\ \/ mem[procOf(t)] = pre[t].mem
              \/ /\ Made(t, "issue", "ok")
                 /\ mem[procOf(t)] = [token |-> Len(issuedAt),
                                      expiry |-> ComputeExpiry(issuedAt[Len(issuedAt)])]

\* A call read a stored token whose expiry was exactly now + buffer and
\* went on to the issuer.
C18_Witness ==
    \E t \in Threads :
        /\ Done(t)
        /\ ~HeldUsable(t)
        /\ Len(io[t]) >= 2
        /\ io[t][1].out = "ok"
        /\ pre[t].store.kind = "object"
        /\ pre[t].store.token > 0
        /\ pre[t].store.expiry = pre[t].now + TOKEN_EXPIRY_BUFFER
        /\ io[t][2].op = "issue"
        /\ result[t].stage = "issuer"

\* C19: a call whose issuance request ends in a network failure, a non-2xx
\* status or a body without access_token fails with that error after the
\* requests read, issue, and leaves the memory tier's token and expiry and
\* the durable store as they were when the call began.
C19_FailedIssuanceChangesNothing ==
    \A t \in Threads :
        (/\ Done(t)
         /\ \E out \in IssuerOutcomes \ {"ok"} : Made(t, "issue", out))
        => /\ result[t].kind = "error"
           /\ result[t].stage = "issuer"
           /\ Made(t, "issue", result[t].err)
           /\ Ops(t) = <<"read", "issue">>
           /\ mem[procOf(t)] = pre[t].mem
           /\ store = pre[t].store

\* A call that held an expired token and found a stored token failed at
\* the issuer and left both in place.
C19_Witness ==
    \E t \in Threads :
        /\ Done(t)
        /\ Made(t, "issue", "HTTPError")
        /\ pre[t].mem.token > 0
        /\ pre[t].store.kind = "object"
        /\ pre[t].store.token > 0
        /\ mem[procOf(t)] = pre[t].mem
        /\ store = pre[t].store

\* C20: with non-overlapping calls and a clock that does not go back, the
\* expiry held in the memory tier of a process is, during and after each
\* call, at least the expiry held when the call began: adoption and
\* issuance only replace it with a later or equal one.
C20_MemoryExpiryMonotone ==
    \A t \in SeqThreads :
        pc[t] # "idle" => mem[procOf(t)].expiry >= pre[t].mem.expiry

\* A call that held an expired token adopted a stored token with a later
\* expiry.
C20_Witness ==
    \E t \in SeqThreads :
        /\ Done(t)
        /\ pre[t].mem.token > 0
        /\ result[t].stage = "durable"
        /\ result[t].kind = "token"
        /\ mem[procOf(t)].token # pre[t].mem.token
        /\ mem[procOf(t)].expiry > pre[t].mem.expiry

\* C21: under every interleaving of the calls of one process, the durable
\* store is either empty or holds a token and an expiry that both come
\* from one issuance response: the expiry is the one computed when that
\* token was received.
C21_StorePairFromOneIssuance ==
    \/ store = Absent
    \/ /\ store.kind = "object"
       /\ store.token \in 1..Len(issuedAt)
       /\ store.expiry = ComputeExpiry(issuedAt[store.token])

\* Two racing calls left the memory tier with the token of one issuance and
\* the expiry of another, and both wrote to the store.
C21_Witness ==
    /\ \A t \in Threads : pc[t] \in {"idle", "done"}
    /\ mem[1].token \in 1..Len(issuedAt)
    /\ mem[1].expiry # ComputeExpiry(issuedAt[mem[1].token])
    /\ Made(1, "write", "ok")
    /\ Made(2, "write", "ok")
    /\ store.kind = "object"

\* ------------------------------------------------------------------------
\* The API authorizer (src/infra/auth0_validator.py)
\*
\* A string is the sequence of its parts, so that "admin" is a substring of
\* "administrator" == <<"admin", "istrator">>.  A JSON value of a claim is
\* a record: kind says which of str (a string) and items (a list of
\* strings) is meant; the kinds dict_* are an object by what its member
\* "role" holds.

ADMIN_API == <<"https://cruise-admin-api">>

VIEWER_API == <<"https://cruise-viewer-api">>

OTHER_API == <<"https://other-api">>

\* lines 7-10, read with .get (line 44): None for an audience not listed
AUTH0_AUDIENCE_PERMISSIONS(aud) ==
    IF aud = ADMIN_API THEN "admin"
    ELSE IF aud = VIEWER_API THEN "*"
    ELSE "None"

JNone == [kind |-> "none", str |-> <<>>, items |-> <<>>]

JStr(s) == [kind |-> "str", str |-> s, items |-> <<>>]

JList(q) == [kind |-> "list", str |-> <<>>, items |-> q]

JDict(v) == [kind |-> "dict_" \o v.kind, str |-> v.str, items |-> v.items]

\* An object without the member "role"
JDictEmpty == [kind |-> "dict_missing", str |-> <<>>, items |-> <<>>]

RoleNames == {<<"admin">>, <<"admin", "istrator">>, <<"viewer">>}

\* Values of the claim https://cruise-viewer.app/roles in a token
RolesClaims ==
    LET plain == {JNone, JList(<<>>), JList(<<<<"viewer">>, <<"admin">>>>),
                  JList(<<<<"admin", "istrator">>>>)}
                     \cup {JStr(r) : r \in RoleNames}
    IN plain \cup {JDict(v) : v \in plain} \cup {JDictEmpty}

\* Values of the claim aud in a token
AudClaims ==
    {JNone, JStr(<<>>), JList(<<>>), JStr(ADMIN_API), JStr(VIEWER_API), JStr(OTHER_API),
     JList(<<OTHER_API, ADMIN_API>>), JList(<<ADMIN_API, VIEWER_API>>),
     JList(<<OTHER_API>>)}

\* The words of the Authorization header, split at " "
Headers == {<<"Bearer", "jwt">>, <<"jwt">>}

\* What PyJWKClient and jwt.decode make of the token (lines 24-27)
JwtStates == {"valid", "expired", "bad_signature"}

MethodArn == <<"arn:aws:execute-api:us-west-2:1:api", "prod", "GET", "admin-api", "users">>

\* The events handler is invoked with; sub and methodArn are <<>> if absent.
Events ==
    [kind : {"event"}, hasToken : BOOLEAN, header : Headers, jwt : JwtStates,
     aud : AudClaims, gty : {"client-credentials", "password"}, roles : RolesClaims,
     sub : {<<>>, <<"auth0|1">>}, methodArn : {<<>>, MethodArn}]

\* sub occurs in s (Python: sub in s, for strings)
Substring(sub, s) ==
    \E i \in 1..(Len(s) - Len(sub) + 1) : SubSeq(s, i, i + Len(sub) - 1) = sub

\* lines 60-67: the roles claim made into what line 70 searches
NormalizedRoles(roles_claim) ==
    CASE roles_claim.kind = "dict_missing" -> JList(<<>>)
      [] roles_claim.kind = "dict_none" -> JNone
      [] roles_claim.kind = "dict_str" -> JStr(roles_claim.str)
      [] roles_claim.kind = "dict_list" -> JList(roles_claim.items)
      [] roles_claim.kind = "list" -> roles_claim
      [] roles_claim.kind = "str" -> JList(<<roles_claim.str>>)
      [] OTHER -> JList(<<>>)

\* x is among roles, every name compared whole
In_equal(x, roles) ==
    CASE roles.kind = "list" -> IF \E i \in 1..Len(roles.items) : roles.items[i] = x
                                THEN "True" ELSE "False"
      [] roles.kind = "str" -> IF roles.str = x THEN "True" ELSE "False"
      [] OTHER -> "TypeError"

\* line 70: "admin" in roles, by the type of roles
In(x, roles) ==
    CASE roles.kind = "list" -> IF \E i \in 1..Len(roles.items) : roles.items[i] = x
                                THEN "True" ELSE "False"
      [] roles.kind = "str" -> IF Substring(x, roles.str) THEN "True" ELSE "False"
      [] OTHER -> "TypeError"

\* lines 33-35: aud as a list
TokenAud(ev) == IF ev.aud.kind = "str" THEN <<ev.aud.str>> ELSE ev.aud.items

RECURSIVE CheckAudiences(_, _, _)
\* lines 42-73: the loop from the i-th audience on; "allowed", "not
\* allowed", or the exception that left the loop
CheckAudiences(ev, token_aud, i) ==
    IF i > Len(token_aud) THEN "not allowed"
    ELSE LET required == AUTH0_AUDIENCE_PERMISSIONS(token_aud[i]) IN
         IF required = "None" THEN CheckAudiences(ev, token_aud, i + 1)
         ELSE IF required = "*" THEN "allowed"
         ELSE IF ev.gty = "client-credentials" THEN "allowed"
         ELSE LET found == In(<<"admin">>, NormalizedRoles(ev.roles)) IN
              IF found = "True" THEN "allowed"
              ELSE IF found = "False" THEN CheckAudiences(ev, token_aud, i + 1)
              ELSE found

\* lines 93-103
Deny(ev) ==
    [principalId |-> <<"unauthorized">>, Effect |-> "Deny",
     Resource |-> IF ev.methodArn = <<>> THEN <<"*">> ELSE ev.methodArn]

\* lines 78-89; methodArn.rsplit("/", 1)[0] + "/*"
Allow(ev) ==
    [principalId |-> ev.sub, Effect |-> "Allow",
     Resource |-> SubSeq(ev.methodArn, 1, Len(ev.methodArn) - 1) \o <<"*">>]

\* lines 18-103
handler(ev) ==
    IF ~ev.hasToken THEN Deny(ev)
    ELSE IF Len(ev.header) < 2 THEN Deny(ev)
    ELSE IF ev.jwt # "valid" THEN Deny(ev)
    ELSE IF ev.aud.kind = "none" \/ TokenAud(ev) = <<>> THEN Deny(ev)
    ELSE IF CheckAudiences(ev, TokenAud(ev), 1) # "allowed" THEN Deny(ev)
    ELSE IF ev.sub = <<>> \/ ev.methodArn = <<>> THEN Deny(ev)
    ELSE Allow(ev)

\* API Gateway has an event for the authorizer.
InitAuth ==
    /\ CacheOff
    /\ IdleOff
    /\ InviteOff
    /\ event \in Events
    /\ policy = NoPolicy

\* API Gateway invokes handler(event, context).
Invoke ==
    /\ event # NoEvent
    /\ policy = NoPolicy
    /\ policy' = handler(event)
    /\ UNCHANGED <<event, cacheVars, idleVars, inviteVars>>

NextAuth == Invoke

SpecAuth == InitAuth /\ [][NextAuth]_vars

\* The token of ev names the role "admin" in its roles claim.
CarriesAdminRole(ev) == In_equal(<<"admin">>, NormalizedRoles(ev.roles)) = "True"

\* The conditions under which the authorizer may allow: the bearer token
\* decoded and verified, and some audience of aud is mapped to "*", or to
\* "admin" while the token is a client-credentials grant or carries the
\* role "admin".
MayAllow(ev) ==
    /\ ev.hasToken
    /\ Len(ev.header) >= 2
    /\ ev.jwt = "valid"
    /\ ev.aud.kind # "none"
    /\ \E i \in 1..Len(TokenAud(ev)) :
        LET required == AUTH0_AUDIENCE_PERMISSIONS(TokenAud(ev)[i]) IN
        \/ required = "*"
        \/ /\ required = "admin"
           /\ ev.gty = "client-credentials" \/ CarriesAdminRole(ev)

\* C22: the authorizer fails closed: the policy handler returned is Allow
\* only if the token verified and some audience of its aud claim is mapped
\* to "*", or to "admin" while the token is a client-credentials grant or
\* carries the role "admin"; in every other case it is the Deny policy with
\* principalId "unauthorized".
C22_FailsClosed ==
    policy # NoPolicy
    => /\ policy.Effect \in {"Allow", "Deny"}
       /\ policy.Effect = "Allow" => MayAllow(event)
       /\ policy.Effect = "Deny" => policy.principalId = <<"unauthorized">>
       /\ ~MayAllow(event) => policy = Deny(event)

\* ------------------------------------------------------------------------
\* The idle monitor (src/app/shutdown.py, src/app/main.py lines 68-80)
\*
\* Time is in minutes.  The monitor thread and the event loop that runs the
\* middlewares are two threads of one process; their steps are cut at
\* every access to last_request_time and to the wall clock.

\* monitor_idle_shutdown(idle_minutes = 10)
idle_minutes == 10

\* time.sleep(60)
SleepMinutes == 1

MaxMinutes == 12

\* The times at which something happens: soon after the import, and around
\* idle_minutes after it
Instants == {0, 1} \cup (idle_minutes..MaxMinutes)

\* main.py has been imported: the monitor thread is started (line 69).
InitIdle ==
    /\ CacheOff
    /\ AuthOff
    /\ InviteOff
    /\ wall = 0
    /\ last_request_time = 0
    /\ mpc = "now"
    /\ mnow = 0
    /\ wake = 0
    /\ rpc = [r \in Requests |-> "none"]
    /\ stamp = [r \in Requests |-> 0]
    /\ latest = -1
    /\ chk = -1

\* The process has not been terminated.
Running == mpc # "exited"

\* The event loop, one thread, can take a step of request r: it is not in
\* the middle of line 23 for another request (no await within the line).
LoopFree(r) == \A q \in Requests \ {r} : rpc[q] # "stamped"

\* Time passes, whether the process runs or not.
MinutePasses ==
    /\ \E w \in Instants : w > wall /\ wall' = w
    /\ UNCHANGED <<last_request_time, mpc, mnow, wake, rpc, stamp, latest, chk>>
    /\ UNCHANGED <<cacheVars, authVars, inviteVars>>

\* shutdown.py line 15: now = datetime.now(timezone.utc)
MonitorNow ==
    /\ mpc = "now"
    /\ mnow' = wall
    /\ chk' = latest
    /\ mpc' = "compare"
    /\ UNCHANGED <<wall, last_request_time, wake, rpc, stamp, latest>>
    /\ UNCHANGED <<cacheVars, authVars, inviteVars>>

\* shutdown.py line 16: (now - last_request_time) > timedelta(minutes=idle_minutes)
IdleTooLong(t, since) == (t - since) > idle_minutes

\* shutdown.py line 16: the global is read and compared.
MonitorCompare ==
    /\ mpc = "compare"
    /\ IF IdleTooLong(mnow, last_request_time)
       THEN /\ mpc' = "exit"
            /\ UNCHANGED <<wake, mnow, chk>>
       ELSE /\ mpc' = "sleep"
            /\ wake' = wall + SleepMinutes
            /\ mnow' = 0
            /\ chk' = -1
    /\ UNCHANGED <<wall, last_request_time, rpc, stamp, latest>>
    /\ UNCHANGED <<cacheVars, authVars, inviteVars>>

\* shutdown.py lines 17-18: print, os._exit(0)
MonitorExit ==
    /\ mpc = "exit"
    /\ mpc' = "exited"
    /\ UNCHANGED <<wall, last_request_time, mnow, wake, rpc, stamp, latest, chk>>
    /\ UNCHANGED <<cacheVars, authVars, inviteVars>>

\* shutdown.py line 19: time.sleep(60) returns, and the loop goes round.
MonitorWake ==
    /\ mpc = "sleep"
    /\ wall >= wake
    /\ mpc' = "now"
    /\ wake' = 0
    /\ UNCHANGED <<wall, last_request_time, mnow, rpc, stamp, latest, chk>>
    /\ UNCHANGED <<cacheVars, authVars, inviteVars>>

\* main.py lines 75-78: a request begins; log_requests, the outermost
\* middleware, logs it and calls the next one.
Arrive(r) ==
    /\ Running
    /\ LoopFree(r)
    /\ rpc[r] = "none"
    /\ rpc' = [rpc EXCEPT ![r] = "arrived"]
    /\ latest' = wall
    /\ UNCHANGED <<wall, last_request_time, mpc, mnow, wake, stamp, chk>>
    /\ UNCHANGED <<cacheVars, authVars, inviteVars>>

\* shutdown.py line 23, right-hand side: datetime.now(timezone.utc)
Stamp(r) ==
    /\ Running
    /\ LoopFree(r)
    /\ rpc[r] = "arrived"
    /\ stamp' = [stamp EXCEPT ![r] = wall]
    /\ rpc' = [rpc EXCEPT ![r] = "stamped"]
    /\ UNCHANGED <<wall, last_request_time, mpc, mnow, wake, latest, chk>>
    /\ UNCHANGED <<cacheVars, authVars, inviteVars>>

\* shutdown.py line 23: the global is assigned.
StoreStamp(r) ==
    /\ Running
    /\ LoopFree(r)
    /\ rpc[r] = "stamped"
    /\ last_request_time' = stamp[r]
    /\ stamp' = [stamp EXCEPT ![r] = 0]
    /\ rpc' = [rpc EXCEPT ![r] = "handling"]
    /\ UNCHANGED <<wall, mpc, mnow, wake, latest, chk>>
    /\ UNCHANGED <<cacheVars, authVars, inviteVars>>

\* shutdown.py lines 24-25: call_next has handled the request.
Respond(r) ==
    /\ Running
    /\ LoopFree(r)
    /\ rpc[r] = "handling"
    /\ rpc' = [rpc EXCEPT ![r] = "none"]
    /\ UNCHANGED <<wall, last_request_time, mpc, mnow, wake, stamp, latest, chk>>
    /\ UNCHANGED <<cacheVars, authVars, inviteVars>>

NextIdle ==
    \/ MinutePasses
    \/ MonitorNow
    \/ MonitorCompare
    \/ MonitorExit
    \/ MonitorWake
    \/ \E r \in Requests : Arrive(r)
    \/ \E r \in Requests : Stamp(r)
    \/ \E r \in Requests : StoreStamp(r)
    \/ \E r \in Requests : Respond(r)

SpecIdle == InitIdle /\ [][NextIdle]_vars

\* ------------------------------------------------------------------------
\* The invite operation (src/lambdas/admin_api.py lines 37-63,
\* src/app/main.py lines 88-98, src/admin/auth0_utils.py)
\*
\* A request is a sequence of steps cut at every call to Auth0; requests of
\* different processes interleave.  The tenant answers a lookup by email
\* with the user of that email, if there is one.

\* The user object Auth0 holds for email e
UserOf(e) == [user_id |-> "auth0|" \o e, email |-> e]

\* auth0_utils.py lines 94-98: the answer of GET /api/v2/users?q=email
find_user(email) == IF email \in directory THEN UserOf(email) ELSE None

\* Variant of the test that never takes the branch of an existing user
UserFound_never(u) == FALSE

\* admin_api.py line 52 (user is None), main.py line 93 (if user): the
\* branch of an existing user
UserFound(u) == u # None

HttpOutcomes == {"ok", "HTTPError"}

InitInvite ==
    /\ CacheOff
    /\ AuthOff
    /\ IdleOff
    /\ InviteOff

\* A call to Auth0 is on record.
Called(r, op, out) == calls' = [calls EXCEPT ![r] = Append(@, [op |-> op, out |-> out])]

\* The request ends with a response.
Responds(r, status, message, user_id) ==
    /\ resp' = [resp EXCEPT ![r] = [status |-> status, message |-> message,
                                    user_id |-> user_id]]
    /\ ipc' = [ipc EXCEPT ![r] = "done"]

\* lambda_handler lines 22-26, and FastAPI for an exception of the handler
Fails(r) == Responds(r, 500, "error", "")

\* A POST /admin-api/users comes in, through the Lambda or through the app.
InviteBegin(r) ==
    /\ ipc[r] = "idle"
    /\ \E via \in {"lambda", "app"}, e \in Emails, complete \in BOOLEAN :
        ireq' = [ireq EXCEPT ![r] = [via |-> via, email |-> e, complete |-> complete]]
    /\ ipc' = [ipc EXCEPT ![r] = "validate"]
    /\ atStart' = [atStart EXCEPT ![r] = [directory |-> directory, mails |-> mails]]
    /\ solo' = [q \in Invites |->
                    IF q = r THEN \A o \in Invites \ {r} : ipc[o] \in {"idle", "done"}
                    ELSE IF ipc[q] = "idle" THEN solo[q] ELSE FALSE]
    /\ UNCHANGED <<directory, mails, user, calls, resp>>
    /\ UNCHANGED <<cacheVars, authVars, idleVars>>

\* admin_api.py lines 38-47; main.py line 89 (pydantic, InviteUserRequest)
Validate(r) ==
    /\ ipc[r] = "validate"
    /\ IF ireq[r].complete
       THEN /\ ipc' = [ipc EXCEPT ![r] = "token"]
            /\ UNCHANGED resp
       ELSE IF ireq[r].via = "lambda"
            THEN Responds(r, 400, "Missing required fields", "")
            ELSE Responds(r, 422, "validation error", "")
    /\ UNCHANGED <<directory, mails, ireq, user, calls, atStart, solo>>
    /\ UNCHANGED <<cacheVars, authVars, idleVars>>

\* admin_api.py line 49: get_m2m_token(); main.py line 90: get_auth0_mgmt_token()
GetToken(r) ==
    /\ ipc[r] = "token"
    /\ \E out \in HttpOutcomes :
        /\ Called(r, "token", out)
        /\ IF out = "ok"
           THEN /\ ipc' = [ipc EXCEPT ![r] = "find"]
                /\ UNCHANGED resp
           ELSE Fails(r)
    /\ UNCHANGED <<directory, mails, ireq, user, atStart, solo>>
    /\ UNCHANGED <<cacheVars, authVars, idleVars>>

\* admin_api.py lines 50-52 and 59-63; main.py lines 91-94
FindUser(r) ==
    /\ ipc[r] = "find"
    /\ \E out \in HttpOutcomes :
        /\ Called(r, "find", IF out # "ok" THEN out
                             ELSE IF find_user(ireq[r].email) = None THEN "None" ELSE "user")
        /\ IF out = "ok"
           THEN LET u == find_user(ireq[r].email) IN
                /\ user' = [user EXCEPT ![r] = u]
                /\ IF UserFound(u)
                   THEN Responds(r, 200, "User already exists", u.user_id)
                   ELSE /\ ipc' = [ipc EXCEPT ![r] = "create"]
                        /\ UNCHANGED resp
           ELSE /\ Fails(r)
                /\ UNCHANGED user
    /\ UNCHANGED <<directory, mails, ireq, atStart, solo>>
    /\ UNCHANGED <<cacheVars, authVars, idleVars>>

\* admin_api.py line 53, main.py line 96: create_user (auth0_utils.py 39-58);
\* Auth0 refuses an email that is in the tenant.
CreateUser(r) ==
    /\ ipc[r] = "create"
    /\ \E out \in HttpOutcomes :
        /\ ireq[r].email \in directory => out = "HTTPError"
        /\ Called(r, "create", out)
        /\ IF out = "ok"
           THEN /\ directory' = directory \cup {ireq[r].email}
                /\ user' = [user EXCEPT ![r] = UserOf(ireq[r].email)]
                /\ ipc' = [ipc EXCEPT ![r] = "send"]
                /\ UNCHANGED resp
           ELSE /\ Fails(r)
                /\ UNCHANGED <<directory, user>>
    /\ UNCHANGED <<mails, ireq, atStart, solo>>
    /\ UNCHANGED <<cacheVars, authVars, idleVars>>

\* admin_api.py lines 54-58, main.py lines 97-98: send_password_reset_email
\* (auth0_utils.py 60-84)
SendReset(r) ==
    /\ ipc[r] = "send"
    /\ \E out \in HttpOutcomes :
        /\ Called(r, "reset", out)
        /\ IF out = "ok"
           THEN /\ mails' = [mails EXCEPT ![ireq[r].email] = @ + 1]
                /\ Responds(r, IF ireq[r].via = "lambda" THEN 201 ELSE 200,
                            "User invited", user[r].user_id)
           ELSE /\ Fails(r)
                /\ UNCHANGED mails
    /\ UNCHANGED <<directory, ireq, user, atStart, solo>>
    /\ UNCHANGED <<cacheVars, authVars, idleVars>>

\* The client has the response.
InviteAck(r) ==
    /\ ipc[r] = "done"
    /\ ipc' = [ipc EXCEPT ![r] = "idle"]
    /\ ireq' = [ireq EXCEPT ![r] = NoRequest]
    /\ user' = [user EXCEPT ![r] = None]
    /\ calls' = [calls EXCEPT ![r] = <<>>]
    /\ resp' = [resp EXCEPT ![r] = NoResponse]
    /\ atStart' = [atStart EXCEPT ![r] = [directory |-> {}, mails |-> [e \in Emails |-> 0]]]
    /\ solo' = [solo EXCEPT ![r] = TRUE]
    /\ UNCHANGED <<directory, mails>>
    /\ UNCHANGED <<cacheVars, authVars, idleVars>>

NextInvite ==
    \/ \E r \in Invites : InviteBegin(r)
    \/ \E r \in Invites : Validate(r)
    \/ \E r \in Invites : GetToken(r)
    \/ \E r \in Invites : FindUser(r)
    \/ \E r \in Invites : CreateUser(r)
    \/ \E r \in Invites : SendReset(r)
    \/ \E r \in Invites : InviteAck(r)

SpecInvite == InitInvite /\ [][NextInvite]_vars

\* C23: the process is terminated only at a check of the monitor at which
\* more than idle_minutes had passed since the most recent request began
\* (since the import, if there was none): if a request began before the
\* check read the clock and at most idle_minutes before it, that check does
\* not terminate the process, whatever the interleaving of the monitor and
\* the requests.
C23_RecentRequestPreventsShutdown ==
    mpc \in {"exit", "exited"}
    => IdleTooLong(mnow, IF chk = -1 THEN 0 ELSE chk)

\* Request r made the call op, with outcome out, as its i-th call.
CallAt(r, i, op, out) ==
    /\ i \in 1..Len(calls[r])
    /\ calls[r][i].op = op
    /\ calls[r][i].out = out

\* The lookup of request r found a user.
LookupFound(r) == \E i \in 1..Len(calls[r]) : CallAt(r, i, "find", "user")

\* C24: an invite request calls create_user only after its own lookup by
\* email found no user, and asks for the password-reset mail only right after
\* its create_user succeeded; a request whose lookup found a user makes no
\* create_user and no password-reset call, answers with a success status and
\* that user's id, and, if no other request ran with it, leaves the tenant's
\* users and mails as they were.
C24_InviteOnlyIfAbsent ==
    \A r \in Invites :
        /\ \A i \in 1..Len(calls[r]) :
            /\ calls[r][i].op = "create"
                => /\ CallAt(r, i - 1, "find", "None")
                   /\ ireq[r].email \notin atStart[r].directory \/ ~solo[r]
            /\ calls[r][i].op = "reset" => CallAt(r, i - 1, "create", "ok")
        /\ (ipc[r] \in {"create", "send"} \/ resp[r].message = "User invited")
            => \E i \in 1..Len(calls[r]) : CallAt(r, i, "find", "None")
        /\ LookupFound(r)
            => /\ \A i \in 1..Len(calls[r]) : calls[r][i].op \notin {"create", "reset"}
               /\ ipc[r] = "done"
               /\ resp[r].status = 200
               /\ resp[r].user_id = user[r].user_id
               /\ user[r].email = ireq[r].email
               /\ solo[r] => directory = atStart[r].directory /\ mails = atStart[r].mails

\* An invite was repeated for an email invited before: the lookup found the
\* user, and the tenant still has one user and one mail for that email.
C24_Witness ==
    \E r \in Invites :
        /\ ipc[r] = "done"
        /\ solo[r]
        /\ LookupFound(r)
        /\ resp[r].status = 200
        /\ mails[ireq[r].email] = 1
        /\ Len(calls[r]) = 2

====
